---- MODULE Spec2Model ----
(***************************************************************************)
(* A model of telegram-chatexports-datasetify (src/main.py): one run of    *)
(* main() over an exported chat, as a state machine.  The pipeline is      *)
(*   load/validate -> sort -> filter -> locate anchors -> build windows    *)
(*   -> reverse -> merge -> open output.csv -> header -> rows.             *)
(* Python positions are kept 0-based, as in the source; At(s, k) reads     *)
(* position k of a list.                                                   *)
(***************************************************************************)
EXTENDS Integers, Sequences, FiniteSets, TLC

\* ------------------------------------------------------------ constants
TTL_SECONDS == 43200

MAX_CONTEXT_MESSAGE == 10

\* Bounds of the inputs the model explores.
MaxLen == 4

FilterLen == 3

DupLen == 3

LongLen == 12

MaxRuns == 2

\* Python's None, for the Optional fields of data_models.Message.
None == "<None>"

\* ------------------------------------------------------------ list helpers
At(s, k) == s[k + 1]

Front(s) == SubSeq(s, 1, Len(s) - 1)

Last(s) == s[Len(s)]

Range(s) == {s[k] : k \in 1..Len(s)}

\* reversed(list), main.py line 114 (and line 43 for the anchor list).
RECURSIVE Reversed(_)
Reversed(s) == IF s = <<>> THEN <<>> ELSE <<Last(s)>> \o Reversed(Front(s))

\* ------------------------------------------------------------ int(str)
\* A date_unixtime is a str; the model writes it as the sequence of its
\* characters.  int() of a non-empty run of decimal digits is its value, int()
\* of the other strings explored here (empty, or holding a letter) raises
\* ValueError.
Digits == {"0", "1", "2", "3", "4", "5", "6", "7", "8", "9"}

DigitVal(c) == CHOOSE d \in 0..9 : ToString(d) = c

IsIntLiteral(s) == Len(s) > 0 /\ \A k \in 1..Len(s) : s[k] \in Digits

RECURSIVE PyInt(_)
PyInt(s) == IF s = <<>> THEN 0 ELSE 10 * PyInt(Front(s)) + DigitVal(Last(s))

\* ------------------------------------------------------------ data model
\* The fields of data_models.Chat and data_models.Message that main.py reads.
ChatRequired == {"id", "messages"}

MessageRequired == {"id", "date_unixtime", "text_entities"}

MessageFields == MessageRequired \cup {"from_id", "media_type", "photo"}

\* Chat.model_validate: every required field is present.
Validates(doc) ==
    /\ ChatRequired \subseteq DOMAIN doc
    /\ \A k \in 1..Len(doc.messages) : MessageRequired \subseteq DOMAIN doc.messages[k]

\* A validated Message: Optional fields that are absent default to None.
ParseMessage(m) == [f \in MessageFields |-> IF f \in DOMAIN m THEN m[f] ELSE None]

ParseChat(doc) ==
    [id |-> doc.id,
     messages |-> [k \in 1..Len(doc.messages) |-> ParseMessage(doc.messages[k])]]

\* ------------------------------------------------------------ pure stages
SortKey(x) == PyInt(x.date_unixtime)

RECURSIVE Insert_Unstable(_, _)
Insert_Unstable(x, s) ==
    IF s = <<>> THEN <<x>>
    ELSE IF SortKey(Last(s)) < SortKey(x) THEN Append(s, x)
    ELSE Append(Insert_Unstable(x, Front(s)), Last(s))

\* sorted() is stable: x goes after every element whose key is <= its own.
RECURSIVE Insert(_, _)
Insert(x, s) ==
    IF s = <<>> THEN <<x>>
    ELSE IF SortKey(Last(s)) <= SortKey(x) THEN Append(s, x)
    ELSE Append(Insert(x, Front(s)), Last(s))

RECURSIVE SortedByKey(_)
SortedByKey(s) == IF s = <<>> THEN <<>> ELSE Insert(Last(s), SortedByKey(Front(s)))

\* get_sorted_messages: the key is computed for every message; one that is
\* no int literal raises ValueError.
SortRaises(msgs) == \E k \in 1..Len(msgs) : ~IsIntLiteral(msgs[k].date_unixtime)

get_sorted_messages(msgs) == SortedByKey(msgs)

IsTextMessage(message) ==
    /\ message.media_type = None
    /\ message.photo = None
    /\ message.text_entities # <<>>

get_text_messages(msgs) == SelectSeq(msgs, IsTextMessage)

model_id_NoConversion(chat_id) == "user"

model_id(chat_id) == "user" \o ToString(chat_id)

RECURSIVE IndexesFrom(_, _, _)
IndexesFrom(msgs, k, id) ==
    IF k >= Len(msgs) THEN <<>>
    ELSE (IF At(msgs, k).from_id = id THEN <<k>> ELSE <<>>) \o IndexesFrom(msgs, k + 1, id)

get_index_of_model_chat(c) == IndexesFrom(c.messages, 0, model_id(c.id))

\* get_textized_text_entities: "\n".join of the fragments' texts.
RECURSIVE get_textized_text_entities(_)
get_textized_text_entities(entities) ==
    IF entities = <<>> THEN ""
    ELSE IF Len(entities) = 1 THEN entities[1].text
    ELSE get_textized_text_entities(Front(entities)) \o "\n" \o Last(entities).text

\* ------------------------------------------------------------ inputs
\* The exported documents the model explores.  Text of the message written at
\* place k of a document: one fragment "m<k>", and a second fragment "z" at the
\* even places, so that every message of a document has its own text.
Plain(t) == [type |-> "plain", text |-> t]

Body(k) ==
    IF k % 2 = 0 THEN <<Plain("m" \o ToString(k)), Plain("z")>>
    ELSE <<Plain("m" \o ToString(k))>>

TextMsg(id, from, time, entities) ==
    [id |-> id, date_unixtime |-> time, from_id |-> from, text_entities |-> entities]

Doc(id, msgs) == [id |-> id, messages |-> msgs]

T0 == <<"0">>

T1 == <<"4", "3", "2", "0", "0">>

T2 == <<"4", "3", "2", "0", "1">>

Times == {T0, T1, T2}

LengthsUpTo(n) == 0..n

\* Up to three speakers, one timestamp.
SenderDocs ==
    UNION {{Doc(42, [k \in 1..n |-> TextMsg(k, s[k], T1, Body(k))]) :
              s \in [1..n -> {"user42", "user7", "channel9"}]} : n \in LengthsUpTo(MaxLen)}

\* Two speakers, timestamps 0, T and T + 1 in any order.
TimeDocs ==
    UNION {{Doc(42, [k \in 1..n |-> TextMsg(k, s[k], t[k], Body(k))]) :
              s \in [1..n -> {"user42", "user7"}], t \in [1..n -> Times]} :
           n \in LengthsUpTo(MaxLen)}

\* Messages the filter drops, among text messages, out of timestamp order; the
\* chat id is 7 here.
Kinds == {"target", "peer", "service", "sticker", "photo", "empty"}

\* The timestamp of the message at place k of these documents: the odd places
\* are later than the even ones, so the sort reorders them and keeps ties.
Stamp(k) == IF k % 2 = 1 THEN T2 ELSE T0

KindMsg(k, kind) ==
    CASE kind = "target" -> TextMsg(k, "user7", Stamp(k), Body(k))
      [] kind = "peer" -> TextMsg(k, "user42", Stamp(k), Body(k))
      [] kind = "service" ->
            [id |-> k, date_unixtime |-> Stamp(k), text_entities |-> Body(k)]
      [] kind = "sticker" ->
            [id |-> k, date_unixtime |-> Stamp(k), from_id |-> "user7",
             text_entities |-> Body(k), media_type |-> "sticker"]
      [] kind = "photo" ->
            [id |-> k, date_unixtime |-> Stamp(k), from_id |-> "user7",
             text_entities |-> Body(k), photo |-> "photos/p.jpg"]
      [] kind = "empty" -> TextMsg(k, "user7", Stamp(k), <<>>)

FilterDocs ==
    UNION {{Doc(7, [k \in 1..n |-> KindMsg(k, kd[k])]) : kd \in [1..n -> Kinds]} :
           n \in LengthsUpTo(FilterLen)}

\* Message ids that repeat.
DupDocs ==
    UNION {{Doc(42, [k \in 1..n |-> TextMsg(ids[k], s[k], T1, Body(k))]) :
              s \in [1..n -> {"user42", "user7"}], ids \in [1..n -> 1..2]} :
           n \in LengthsUpTo(DupLen)}

\* Long chats: a run of the peer's messages, then a run of the target's.
LongDocs ==
    {Doc(42, [k \in 1..LongLen |->
                 TextMsg(k, IF k <= j THEN "user7" ELSE "user42", T1, Body(k))]) :
       j \in 0..LongLen}

\* The chat of four messages of the specification's scenario.
Fragment(t) == <<Plain(t)>>

ScenarioDoc ==
    Doc(42, <<TextMsg(1, "user42", <<"1", "0", "0", "0">>, Fragment("hi")),
              TextMsg(2, "peer", <<"1", "0", "0", "2">>, Fragment("hello")),
              TextMsg(3, "peer", <<"1", "0", "0", "3">>, Fragment("how are you")),
              TextMsg(4, "user42", <<"1", "0", "0", "5">>, Fragment("good"))>>)

\* Documents that fail: a required field is missing (ValidationError), or a
\* date_unixtime is no int literal (ValueError in the sort).
MalformedDocs ==
    {[id |-> 42],
     Doc(42, <<[id |-> 1, from_id |-> "user42", text_entities |-> Body(1)]>>),
     Doc(42, <<TextMsg(1, "user42", T1, Body(1)), [id |-> 2, date_unixtime |-> T1]>>)}

BadTimeDocs ==
    {Doc(42, <<TextMsg(1, "user42", <<>>, Body(1))>>),
     Doc(42, <<TextMsg(1, "user7", T1, Body(1)), TextMsg(2, "user42", <<"1", "x">>, Body(2))>>),
     Doc(42, <<TextMsg(1, "user7", T1, Body(1)),
               [id |-> 2, date_unixtime |-> <<"x">>, from_id |-> "user7",
                text_entities |-> <<>>, media_type |-> "sticker"],
               TextMsg(3, "user42", T2, Body(3))>>)}

Inputs ==
    SenderDocs \cup TimeDocs \cup FilterDocs \cup DupDocs \cup LongDocs
        \cup {ScenarioDoc} \cup MalformedDocs \cup BadTimeDocs

\* ------------------------------------------------------------ state
VARIABLES
    export_data,            \* the document json.load returns (result.json)
    run,                    \* which invocation of main() this is
    pc,                     \* where main() and the generators stand
    chat,                   \* the validated Chat; chat.messages is reassigned
    model_index,            \* the anchor positions (0-based)
    todo,                   \* reversed(model_index): the positions still to visit
    consumed_message_id,    \* recurse_messsages' list of consumed message ids
    idx, message, context, answer_date_unixtime, i, is_turned,
    built,                  \* the windows the list comprehension has collected
    contexts,               \* main's contexts: the reversed list of windows
    qa,                     \* the pairs collected from merge_context
    f_state,                \* output.csv: "unopened", "open" or "closed"
    output_csv              \* the rows of output.csv

locals ==
    <<chat, model_index, todo, idx, message, context, answer_date_unixtime, i,
      is_turned, built, contexts, qa>>

vars == <<export_data, run, pc, consumed_message_id, f_state, output_csv, locals>>

builder == <<idx, message, context, answer_date_unixtime, i, is_turned>>

NoChat == [id |-> 0, messages |-> <<>>]

NoMessage == [id |-> 0, date_unixtime |-> <<>>, from_id |-> None, text_entities |-> <<>>,
              media_type |-> None, photo |-> None]

\* The locals of an invocation of main() before it assigns them.
Unassigned ==
    /\ chat = NoChat
    /\ model_index = <<>>
    /\ todo = <<>>
    /\ idx = -1
    /\ message = NoMessage
    /\ context = <<>>
    /\ answer_date_unixtime = 0
    /\ i = 0
    /\ is_turned = FALSE
    /\ built = <<>>
    /\ contexts = <<>>
    /\ qa = <<>>

Init ==
    /\ export_data \in Inputs
    /\ run = 1
    /\ pc = "start"
    /\ consumed_message_id = <<>>
    /\ f_state = "unopened"
    /\ output_csv = <<>>
    /\ Unassigned

\* ------------------------------------------------------------ main: load
Load_OpensOutputFirst ==
    /\ pc = "start"
    /\ Validates(export_data)
    /\ chat' = ParseChat(export_data)
    /\ f_state' = "open"
    /\ output_csv' = <<>>
    /\ pc' = "loaded"
    /\ UNCHANGED <<export_data, run, consumed_message_id,
                   model_index, todo, builder, built, contexts, qa>>

Load ==
    /\ pc = "start"
    /\ Validates(export_data)
    /\ chat' = ParseChat(export_data)
    /\ pc' = "loaded"
    /\ UNCHANGED <<export_data, run, consumed_message_id, f_state, output_csv,
                   model_index, todo, builder, built, contexts, qa>>

LoadFails ==
    /\ pc = "start"
    /\ ~Validates(export_data)
    /\ pc' = "failed"
    /\ UNCHANGED <<export_data, run, consumed_message_id, f_state, output_csv, locals>>

\* ------------------------------------------------------------ main: sort, filter
Sort ==
    /\ pc = "loaded"
    /\ ~SortRaises(chat.messages)
    /\ chat' = [chat EXCEPT !.messages = get_sorted_messages(chat.messages)]
    /\ pc' = "sorted"
    /\ UNCHANGED <<export_data, run, consumed_message_id, f_state, output_csv,
                   model_index, todo, builder, built, contexts, qa>>

SortFails ==
    /\ pc = "loaded"
    /\ SortRaises(chat.messages)
    /\ pc' = "failed"
    /\ UNCHANGED <<export_data, run, consumed_message_id, f_state, output_csv, locals>>

Filter ==
    /\ pc = "sorted"
    /\ chat' = [chat EXCEPT !.messages = get_text_messages(chat.messages)]
    /\ pc' = "filtered"
    /\ UNCHANGED <<export_data, run, consumed_message_id, f_state, output_csv,
                   model_index, todo, builder, built, contexts, qa>>

Locate ==
    /\ pc = "filtered"
    /\ model_index' = get_index_of_model_chat(chat)
    /\ pc' = "located"
    /\ UNCHANGED <<export_data, run, consumed_message_id, f_state, output_csv,
                   chat, todo, builder, built, contexts, qa>>

\* ------------------------------------------------------------ recurse_messsages
\* The list a new invocation of the generator starts from (line 42).
ConsumedAtEntry_CarriedOver == consumed_message_id

ConsumedAtEntry == <<>>

\* The order the anchors are visited in (line 43).
VisitOrder_Ascending(index) == index

VisitOrder(index) == Reversed(index)

BuilderEnter ==
    /\ pc = "located"
    /\ consumed_message_id' = ConsumedAtEntry
    /\ todo' = VisitOrder(model_index)
    /\ pc' = "for"
    /\ UNCHANGED <<export_data, run, f_state, output_csv, chat, model_index, builder,
                   built, contexts, qa>>

\* message.id in consumed_message_id (line 45).
IsConsumed_Never(id, consumed) == FALSE

IsConsumed(id, consumed) == id \in Range(consumed)

\* One anchor whose message is consumed already: continue.
ForSkip ==
    /\ pc = "for"
    /\ todo # <<>>
    /\ LET p == Head(todo)
           m == At(chat.messages, p)
       IN  /\ IsConsumed(m.id, consumed_message_id)
           /\ idx' = p
           /\ message' = m
    /\ todo' = Tail(todo)
    /\ UNCHANGED <<export_data, run, pc, consumed_message_id, f_state, output_csv,
                   chat, model_index, context, answer_date_unixtime, i, is_turned,
                   built, contexts, qa>>

\* One anchor that starts a window (lines 44 to 54).
ForStart ==
    /\ pc = "for"
    /\ todo # <<>>
    /\ LET p == Head(todo)
           m == At(chat.messages, p)
       IN  /\ ~IsConsumed(m.id, consumed_message_id)
           /\ idx' = p
           /\ message' = m
           /\ consumed_message_id' = Append(consumed_message_id, m.id)
           /\ context' = <<m>>
           /\ answer_date_unixtime' = PyInt(m.date_unixtime)
    /\ i' = 1
    /\ is_turned' = FALSE
    /\ todo' = Tail(todo)
    /\ pc' = "while"
    /\ UNCHANGED <<export_data, run, f_state, output_csv, chat, model_index, built,
                   contexts, qa>>

\* The conditions of the while loop (lines 55, 58, 62, 65).
LoopCondition_Inclusive(ctx) == Len(ctx) <= MAX_CONTEXT_MESSAGE

LoopCondition(ctx) == Len(ctx) < MAX_CONTEXT_MESSAGE

AtFirstMessage_Strict(position) == position < 0

AtFirstMessage_Never(position) == FALSE

AtFirstMessage(position) == position <= 0

TooOld_Sliding(answer_time, next_message) ==
    PyInt(message.date_unixtime) - PyInt(next_message.date_unixtime) > TTL_SECONDS

TooOld_AtThreshold(answer_time, next_message) ==
    answer_time - PyInt(next_message.date_unixtime) >= TTL_SECONDS

TooOld(answer_time, next_message) ==
    answer_time - PyInt(next_message.date_unixtime) > TTL_SECONDS

SameSender_AsAnchor(next_message, current) == next_message.from_id = context[1].from_id

SameSender(next_message, current) == next_message.from_id = current.from_id

TurnUsed_Never(turned) == FALSE

TurnUsed(turned) == turned

next_idx == idx - i

next_message == At(chat.messages, next_idx)

\* The window is full: the loop ends.
WhileExit ==
    /\ pc = "while"
    /\ ~LoopCondition(context)
    /\ pc' = "yield"
    /\ UNCHANGED <<export_data, run, consumed_message_id, f_state, output_csv, locals>>

\* break at line 60.
BreakFirst ==
    /\ pc = "while"
    /\ LoopCondition(context)
    /\ AtFirstMessage(next_idx)
    /\ pc' = "yield"
    /\ UNCHANGED <<export_data, run, consumed_message_id, f_state, output_csv, locals>>

\* break at line 64.
BreakStale ==
    /\ pc = "while"
    /\ LoopCondition(context)
    /\ ~AtFirstMessage(next_idx)
    /\ TooOld(answer_date_unixtime, next_message)
    /\ pc' = "yield"
    /\ UNCHANGED <<export_data, run, consumed_message_id, f_state, output_csv, locals>>

BreakTurned_Consumes ==
    /\ pc = "while"
    /\ LoopCondition(context)
    /\ ~AtFirstMessage(next_idx)
    /\ ~TooOld(answer_date_unixtime, next_message)
    /\ ~SameSender(next_message, message)
    /\ TurnUsed(is_turned)
    /\ consumed_message_id' = Append(consumed_message_id, next_message.id)
    /\ pc' = "yield"
    /\ UNCHANGED <<export_data, run, f_state, output_csv, locals>>

\* break at line 73.
BreakTurned ==
    /\ pc = "while"
    /\ LoopCondition(context)
    /\ ~AtFirstMessage(next_idx)
    /\ ~TooOld(answer_date_unixtime, next_message)
    /\ ~SameSender(next_message, message)
    /\ TurnUsed(is_turned)
    /\ pc' = "yield"
    /\ UNCHANGED <<export_data, run, consumed_message_id, f_state, output_csv, locals>>

\* Lines 66 to 68, then 78 and 79.
AppendSame ==
    /\ pc = "while"
    /\ LoopCondition(context)
    /\ ~AtFirstMessage(next_idx)
    /\ ~TooOld(answer_date_unixtime, next_message)
    /\ SameSender(next_message, message)
    /\ context' = Append(context, next_message)
    /\ consumed_message_id' = Append(consumed_message_id, next_message.id)
    /\ message' = next_message
    /\ i' = i + 1
    /\ UNCHANGED <<export_data, run, pc, f_state, output_csv, chat, model_index, todo,
                   idx, answer_date_unixtime, is_turned, built, contexts, qa>>

\* Lines 75 to 77, then 78 and 79.
AppendTurn ==
    /\ pc = "while"
    /\ LoopCondition(context)
    /\ ~AtFirstMessage(next_idx)
    /\ ~TooOld(answer_date_unixtime, next_message)
    /\ ~SameSender(next_message, message)
    /\ ~TurnUsed(is_turned)
    /\ context' = Append(context, next_message)
    /\ consumed_message_id' = Append(consumed_message_id, next_message.id)
    /\ is_turned' = TRUE
    /\ message' = next_message
    /\ i' = i + 1
    /\ UNCHANGED <<export_data, run, pc, f_state, output_csv, chat, model_index, todo,
                   idx, answer_date_unixtime, built, contexts, qa>>

\* yield context (line 80): the comprehension of line 115 collects it.
Yield ==
    /\ pc = "yield"
    /\ built' = Append(built, context)
    /\ pc' = "for"
    /\ UNCHANGED <<export_data, run, consumed_message_id, f_state, output_csv, chat,
                   model_index, todo, builder, contexts, qa>>

\* The order main hands the windows to merge_context in (line 114).
ReversedWindows_NotReversed(windows) == windows

ReversedWindows(windows) == Reversed(windows)

\* The generator is exhausted; main reverses the collected list.
BuildDone ==
    /\ pc = "for"
    /\ todo = <<>>
    /\ contexts' = ReversedWindows(built)
    /\ pc' = "merge"
    /\ UNCHANGED <<export_data, run, consumed_message_id, f_state, output_csv, chat,
                   model_index, todo, builder, built, qa>>

\* ------------------------------------------------------------ merge_context
\* q += ... / a += ... over the messages of one side (lines 90 to 93).
RECURSIVE ConcatTexts(_)
ConcatTexts(msgs) ==
    IF msgs = <<>> THEN ""
    ELSE get_textized_text_entities(Head(msgs).text_entities) \o ConcatTexts(Tail(msgs))

QuestionSide_Swapped(ctx, id) == SelectSeq(ctx, LAMBDA m : m.from_id = id)

QuestionSide(ctx, id) == SelectSeq(ctx, LAMBDA m : m.from_id # id)

AnswerSide(ctx, id) == SelectSeq(ctx, LAMBDA m : m.from_id = id)

MergeOne(c, ctx) ==
    LET id == model_id(c.id)
    IN  <<ConcatTexts(QuestionSide(ctx, id)), ConcatTexts(AnswerSide(ctx, id))>>

\* One window of contexts, in its order, becomes one pair.
MergeNext ==
    /\ pc = "merge"
    /\ Len(qa) < Len(contexts)
    /\ qa' = Append(qa, MergeOne(chat, contexts[Len(qa) + 1]))
    /\ UNCHANGED <<export_data, run, pc, consumed_message_id, f_state, output_csv, chat,
                   model_index, todo, builder, built, contexts>>

MergeDone ==
    /\ pc = "merge"
    /\ Len(qa) = Len(contexts)
    /\ pc' = "merged"
    /\ UNCHANGED <<export_data, run, consumed_message_id, f_state, output_csv, locals>>

\* ------------------------------------------------------------ main: output
HeaderRow == <<"question", "answer">>

\* open("output.csv", "w") truncates the file (line 121).
OpenOutput ==
    /\ pc = "merged"
    /\ f_state' = "open"
    /\ output_csv' = <<>>
    /\ pc' = "opened"
    /\ UNCHANGED <<export_data, run, consumed_message_id, locals>>

WriteHeader ==
    /\ pc = "opened"
    /\ output_csv' = Append(output_csv, HeaderRow)
    /\ pc' = "header"
    /\ UNCHANGED <<export_data, run, consumed_message_id, f_state, locals>>

\* writerows(qa), and the with block closes the file.
WriteRows ==
    /\ pc = "header"
    /\ output_csv' = output_csv \o qa
    /\ f_state' = "closed"
    /\ pc' = "done"
    /\ UNCHANGED <<export_data, run, consumed_message_id, locals>>

\* The program is run again on the same result.json: a new invocation of
\* main() has new locals; output.csv stays on disk.
RunAgain ==
    /\ pc = "done"
    /\ run < MaxRuns
    /\ run' = run + 1
    /\ pc' = "start"
    /\ chat' = NoChat
    /\ model_index' = <<>>
    /\ todo' = <<>>
    /\ idx' = -1
    /\ message' = NoMessage
    /\ context' = <<>>
    /\ answer_date_unixtime' = 0
    /\ i' = 0
    /\ is_turned' = FALSE
    /\ built' = <<>>
    /\ contexts' = <<>>
    /\ qa' = <<>>
    /\ UNCHANGED <<export_data, consumed_message_id, f_state, output_csv>>

Next ==
    \/ Load \/ LoadFails \/ Sort \/ SortFails \/ Filter \/ Locate
    \/ BuilderEnter \/ ForSkip \/ ForStart
    \/ WhileExit \/ BreakFirst \/ BreakStale \/ BreakTurned \/ AppendSame \/ AppendTurn
    \/ Yield \/ BuildDone
    \/ MergeNext \/ MergeDone
    \/ OpenOutput \/ WriteHeader \/ WriteRows \/ RunAgain

Spec == Init /\ [][Next]_vars

\* ------------------------------------------------------------ properties
Ids(w) == {w[k].id : k \in 1..Len(w)}

NoRepeatedId(w) == \A j, k \in 1..Len(w) : j # k => w[j].id # w[k].id

Time(m) == PyInt(m.date_unixtime)

Senders(w) == {w[k].from_id : k \in 1..Len(w)}

\* The position in chat.messages of a message of the chat.
PositionOf(m) == CHOOSE p \in 0..(Len(chat.messages) - 1) : At(chat.messages, p) = m

\* C1: when the ids of the sorted, filtered messages are unique, no id occurs
\* in two emitted windows and none occurs twice in one window.
C1_Partition ==
    NoRepeatedId(chat.messages) =>
        /\ \A a, b \in 1..Len(built) : a # b => Ids(built[a]) \cap Ids(built[b]) = {}
        /\ \A a \in 1..Len(built) : NoRepeatedId(built[a])

\* Two windows are emitted, one of them of three messages or more, and an
\* anchor was absorbed by another anchor's window.
C1_Witness ==
    /\ pc = "merge"
    /\ NoRepeatedId(chat.messages)
    /\ Len(built) >= 2
    /\ \E a \in 1..Len(built) : Len(built[a]) >= 3
    /\ Len(model_index) > Len(built)

\* C2: every emitted window holds at least 1 and at most MAX_CONTEXT_MESSAGE
\* messages.
C2_BoundedSize ==
    \A a \in 1..Len(built) : Len(built[a]) >= 1 /\ Len(built[a]) <= MAX_CONTEXT_MESSAGE

\* A window is cut at MAX_CONTEXT_MESSAGE although the next predecessor is
\* past the first position, recent enough and of the current speaker.
C2_Witness ==
    /\ pc = "yield"
    /\ Len(context) = MAX_CONTEXT_MESSAGE
    /\ idx - i > 0
    /\ Time(context[1]) - Time(At(chat.messages, idx - i)) <= TTL_SECONDS
    /\ At(chat.messages, idx - i).from_id = message.from_id

\* C3: in every emitted window each message is at most TTL_SECONDS older than
\* the window's first message, the anchor.
C3_DecayBound ==
    \A a \in 1..Len(built) : \A k \in 2..Len(built[a]) :
        Time(built[a][1]) - Time(built[a][k]) <= TTL_SECONDS

\* A window of two messages or more stops at a predecessor that is more than
\* TTL_SECONDS older than the anchor but not than the last message added.
C3_Witness ==
    /\ pc = "yield"
    /\ Len(context) >= 2
    /\ Len(context) < MAX_CONTEXT_MESSAGE
    /\ idx - i > 0
    /\ Time(context[1]) - Time(At(chat.messages, idx - i)) > TTL_SECONDS
    /\ Time(Last(context)) - Time(At(chat.messages, idx - i)) <= TTL_SECONDS

\* C4: every emitted window holds messages of at most two senders.
C4_TurnCap == \A a \in 1..Len(built) : Cardinality(Senders(built[a])) <= 2

\* A window of two senders stops at a message of a third sender.
C4_Witness ==
    /\ pc = "yield"
    /\ Cardinality(Senders(context)) = 2
    /\ Len(context) < MAX_CONTEXT_MESSAGE
    /\ idx - i > 0
    /\ Time(context[1]) - Time(At(chat.messages, idx - i)) <= TTL_SECONDS
    /\ At(chat.messages, idx - i).from_id \notin Senders(context)

\* C5: the anchors are visited from the last position down, every one of them
\* once; a visited anchor whose id is consumed starts no window, any other
\* starts a window that holds the anchor alone; the window under construction
\* keeps its anchor first and is emitted once, at the end of the list of
\* emitted windows; windows are emitted in no other way.
C5_Step ==
    /\ (pc = "located" /\ pc' = "for") => Range(todo') = Range(model_index)
    /\ (pc = "for" /\ todo' # todo) =>
          /\ idx' \in Range(todo)
          /\ \A p \in Range(todo) : p <= idx'
          /\ Range(todo') = Range(todo) \ {idx'}
          /\ Len(todo') = Len(todo) - 1
          /\ IF At(chat.messages, idx').id \in Range(consumed_message_id)
             THEN pc' = "for" /\ built' = built /\ context' = context
             ELSE pc' = "while" /\ built' = built /\ context' = <<At(chat.messages, idx')>>
    /\ (pc = "for" /\ pc' = "merge") => todo = <<>>
    /\ pc = "while" =>
          /\ pc' \in {"while", "yield"}
          /\ idx' = idx /\ todo' = todo /\ built' = built
          /\ context'[1] = context[1]
    /\ (pc = "yield" /\ pc' # "yield") =>
          /\ pc' = "for"
          /\ context[1] = At(chat.messages, idx)
          /\ built' = Append(built, context)
    /\ built' # built => (pc = "yield" \/ built' = <<>>)

C5_VisitAndEmit == [][C5_Step]_vars

\* All anchors were visited, two windows or more were emitted and one anchor
\* or more was skipped.
C5_Witness ==
    /\ pc = "for"
    /\ todo = <<>>
    /\ Len(built) >= 2
    /\ Len(model_index) > Len(built)
    /\ \E p \in Range(model_index) :
          \A a \in 1..Len(built) : built[a][1] # At(chat.messages, p)

\* C6, as claimed: in the scenario the pairs are, in order, ("how are you" +
\* "hello", "good") and then ("", "hi").
Scenario(k) == ParseMessage(ScenarioDoc.messages[k])

ScenarioWindows ==
    /\ model_index = <<0, 3>>
    /\ built = <<<<Scenario(4), Scenario(3), Scenario(2)>>, <<Scenario(1)>>>>

C6_PairsInEmissionOrder ==
    (export_data = ScenarioDoc /\ pc = "merged") =>
        /\ ScenarioWindows
        /\ qa = <<<<"how are you" \o "hello", "good">>, <<"", "hi">>>>

\* C6, amended: in the scenario the anchors are [0, 3], the windows are
\* emitted as [msg4, msg3, msg2] and then [msg1], and the pairs are, in order,
\* ("", "hi") and then ("how are you" + "hello", "good").
C6_Scenario ==
    (export_data = ScenarioDoc /\ pc = "merged") =>
        /\ ScenarioWindows
        /\ qa = <<<<"", "hi">>, <<"how are you" \o "hello", "good">>>>

C6_Witness == export_data = ScenarioDoc /\ pc = "merged" /\ Len(qa) = 2

\* C7: the k-th pair is made from the k-th window handed to merge_context: its
\* answer is the texts of the window's messages of sender "user" + chat id, its
\* question the texts of the others, each in the window's order and with
\* nothing between them; a text is the fragments joined by a newline.
RECURSIVE JoinLines(_)
JoinLines(entities) ==
    IF entities = <<>> THEN ""
    ELSE Head(entities).text
            \o (IF Len(entities) > 1 THEN "\n" \o JoinLines(Tail(entities)) ELSE "")

RECURSIVE SideText(_, _, _)
SideText(w, target, answer) ==
    IF w = <<>> THEN ""
    ELSE SideText(Front(w), target, answer)
            \o (IF (Last(w).from_id = target) = answer
                THEN JoinLines(Last(w).text_entities) ELSE "")

PairOf(w) ==
    LET target == "user" \o ToString(chat.id)
    IN  <<SideText(w, target, FALSE), SideText(w, target, TRUE)>>

C7_Merge ==
    /\ Len(qa) <= Len(contexts)
    /\ pc \in {"merged", "opened", "header", "done"} => Len(qa) = Len(contexts)
    /\ \A k \in 1..Len(qa) : qa[k] = PairOf(contexts[k])

\* A pair with both sides non-empty made from a window of three messages or
\* more, one of them of two fragments, after another pair.
C7_Witness ==
    \E k \in 2..Len(qa) :
        /\ Len(contexts[k]) >= 3
        /\ qa[k][1] # "" /\ qa[k][2] # ""
        /\ \E j \in 1..Len(contexts[k]) : Len(contexts[k][j].text_entities) = 2

\* C8: when the run is done output.csv holds the header row and then one row
\* per emitted window, the row of the window of the smallest anchor position
\* first and so on upwards.
C8_RowsOldestFirst ==
    pc = "done" =>
        LET n == Len(built)
        IN  /\ Len(output_csv) = n + 1
            /\ output_csv[1] = <<"question", "answer">>
            /\ \A k \in 1..n : output_csv[k + 1] = PairOf(built[n + 1 - k])
            /\ \A k \in 1..(n - 1) :
                  PositionOf(built[n + 1 - k][1]) < PositionOf(built[n - k][1])

C8_Witness == pc = "done" /\ Len(built) >= 3 /\ Len(output_csv) = 4

\* C9: a second run on the same document computes the pairs the first run
\* wrote: when its pairs are merged, output.csv (still the first run's) is the
\* header row followed by them.
C9_SameOutput ==
    (run > 1 /\ pc = "merged") => output_csv = <<HeaderRow>> \o qa

\* The second run has consumed ids and has merged two pairs or more.
C9_Witness ==
    /\ run = 2
    /\ pc = "merged"
    /\ Len(qa) >= 2
    /\ Len(consumed_message_id) >= 3

\* C10: a run that failed has not opened output.csv or written to it, and
\* the first run opens it only once all pairs are merged.
C10_NoPartialOutput ==
    /\ pc = "failed" => (f_state = "unopened" /\ output_csv = <<>>)
    /\ (run = 1 /\ pc \notin {"opened", "header", "done"}) =>
          (f_state = "unopened" /\ output_csv = <<>>)

\* The sort failed on a document that passed validation.
C10_Witness == pc = "failed" /\ chat # NoChat /\ Len(chat.messages) >= 2

\* The backward scan of the window of the anchor at position idx.
InScan == pc \in {"while", "yield"}

\* The iterations of the while loop made so far for this window: the i - 1
\* that appended, and the one that ended in a break.
Iterations ==
    (i - 1) + (IF pc = "yield" /\ Len(context) < MAX_CONTEXT_MESSAGE THEN 1 ELSE 0)

Appends == Len(context) - 1

AtLeastOne(p) == IF p >= 1 THEN p ELSE 1

\* C11, as claimed: during the scan for the anchor at position idx the cursor
\* i is at most idx, at most idx iterations are made and at most
\* MAX_CONTEXT_MESSAGE - 1 messages are appended.
C11_CursorWithinDistance ==
    InScan => (i <= idx /\ Iterations <= idx /\ Appends <= MAX_CONTEXT_MESSAGE - 1)

\* C11, amended: the Builder, once entered, ends (in it a step is always
\* possible, and every step lowers WorkLeft or leaves it); during the scan for the
\* anchor at position idx the cursor i and the number of iterations are at
\* most idx when idx >= 1 and at most 1 when idx = 0, and at most
\* MAX_CONTEXT_MESSAGE - 1 messages are appended.
C11_ScanBounds ==
    InScan =>
        /\ i >= 1
        /\ i <= AtLeastOne(idx)
        /\ Iterations <= AtLeastOne(idx)
        /\ Appends <= MAX_CONTEXT_MESSAGE - 1

\* What is left of the Builder's work: the anchors to visit and the room left
\* in the window under construction.
InBuilder == pc \in {"for", "while", "yield"}

WorkLeft ==
    (MAX_CONTEXT_MESSAGE + 2) * Len(todo)
        + (CASE pc = "while" -> (MAX_CONTEXT_MESSAGE - Len(context)) + 2
             [] pc = "yield" -> 1
             [] OTHER -> 0)

C11_Termination ==
    /\ []C11_ScanBounds
    /\ [](InBuilder => (WorkLeft >= 0 /\ ENABLED Next))
    /\ [][InBuilder => (InBuilder' /\ WorkLeft' < WorkLeft) \/ pc' = "merge"]_vars

\* A scan of an anchor at position 3 or more ends with the cursor at the
\* anchor's position, after as many iterations.
C11_Witness == pc = "yield" /\ idx >= 3 /\ i = idx /\ Iterations = idx

ValidPositions == 0..(Len(chat.messages) - 1)

\* C12: every position of chat.messages the Builder reads or is about to read
\* is a position of the list: the anchors still to visit, the anchor of the
\* window under construction, and the candidate idx - i whenever the loop goes
\* on to read it (lines 44 and 61).
C12_ReadsInBounds ==
    /\ InBuilder => Range(todo) \subseteq ValidPositions
    /\ InScan => idx \in ValidPositions
    /\ (pc = "while" /\ LoopCondition(context) /\ ~AtFirstMessage(next_idx)) =>
          next_idx \in ValidPositions

\* The scan of the last message of a chat of three messages or more is about
\* to read position 1, the lowest it reads.
C12_Witness ==
    /\ pc = "while"
    /\ Len(chat.messages) >= 3
    /\ idx = Len(chat.messages) - 1
    /\ Len(context) < MAX_CONTEXT_MESSAGE
    /\ idx - i = 1

\* The scan has stopped at a candidate that would be a second turn switch.
HaltedAtTurn ==
    /\ pc = "yield"
    /\ Len(context) < MAX_CONTEXT_MESSAGE
    /\ idx - i > 0
    /\ Time(context[1]) - Time(At(chat.messages, idx - i)) <= TTL_SECONDS
    /\ At(chat.messages, idx - i).from_id # message.from_id
    /\ is_turned

InSomeWindow(m) ==
    \/ \E a \in 1..Len(built) : m \in Range(built[a])
    \/ (InScan /\ m \in Range(context))

\* C13: a candidate the scan halts at for a second turn switch is not in the
\* window; and, the ids being unique, an id is in the consumed list only when
\* its message is in a window, so the candidate is not consumed by the halt
\* and stays unconsumed until a window takes it.
C13_HaltedNotConsumed ==
    /\ HaltedAtTurn => At(chat.messages, idx - i) \notin Range(context)
    /\ (InBuilder /\ NoRepeatedId(chat.messages)) =>
          \A p \in ValidPositions :
              At(chat.messages, p).id \in Range(consumed_message_id)
                  <=> InSomeWindow(At(chat.messages, p))

\* A window halted at a second turn switch, and the candidate it halted at is
\* in the window of another anchor, emitted later.
C13_Witness ==
    /\ NoRepeatedId(chat.messages)
    /\ \E a, b \in 1..Len(built) :
          /\ a < b
          /\ Cardinality(Senders(built[a])) = 2
          /\ Len(built[a]) < MAX_CONTEXT_MESSAGE
          /\ LET q == PositionOf(Last(built[a])) - 1
             IN  /\ q > 0
                 /\ At(chat.messages, q).from_id # Last(built[a]).from_id
                 /\ Time(built[a][1]) - Time(At(chat.messages, q)) <= TTL_SECONDS
                 /\ At(chat.messages, q) \in Range(built[b])

\* The validated messages of the document, in the document's order.
InputMessages == ParseChat(export_data).messages

InputPlace(m) == CHOOSE k \in 1..Len(InputMessages) : InputMessages[k] = m

IsPlainText(m) == m.media_type = None /\ m.photo = None /\ Len(m.text_entities) > 0

TextInputs == {InputMessages[k] : k \in {j \in 1..Len(InputMessages) : IsPlainText(InputMessages[j])}}

\* The stages in the specification's order: the filter, then the sort.
FilterThenSort == get_sorted_messages(get_text_messages(InputMessages))

Candidate == At(chat.messages, idx - i)

StoppedBySize == Len(context) >= MAX_CONTEXT_MESSAGE

StoppedAtFirst == Len(context) < MAX_CONTEXT_MESSAGE /\ idx - i <= 0

StoppedByDecay ==
    /\ Len(context) < MAX_CONTEXT_MESSAGE
    /\ idx - i > 0
    /\ Time(context[1]) - Time(Candidate) > TTL_SECONDS

StoppedByTurn ==
    /\ Len(context) < MAX_CONTEXT_MESSAGE
    /\ idx - i > 0
    /\ Time(context[1]) - Time(Candidate) <= TTL_SECONDS
    /\ Candidate.from_id # Last(context).from_id
    /\ Cardinality(Senders(context)) = 2

\* C15, as claimed: when the scan has stopped at the test of the first
\* position, chat.messages has no message at the candidate position.
C15_StopsOnlyWithoutPredecessor ==
    (pc = "yield" /\ StoppedAtFirst) => (idx - i) \notin ValidPositions

\* C16: a finished window is the i messages at positions idx down to
\* idx - i + 1, and it has stopped for its size, at the test of the first
\* position, for the candidate's age or for a second turn switch; when it has
\* stopped for the candidate's age, the candidate is more than TTL_SECONDS
\* older than the anchor and every position between the two is in the window
\* and at most TTL_SECONDS older than the anchor.
C16_Maximality ==
    pc = "yield" =>
        /\ Len(context) = i
        /\ \A k \in 1..Len(context) : context[k] = At(chat.messages, idx - (k - 1))
        /\ StoppedBySize \/ StoppedAtFirst \/ StoppedByDecay \/ StoppedByTurn
        /\ StoppedByDecay =>
              \A q \in (idx - i + 1)..(idx - 1) :
                  /\ At(chat.messages, q) \in Range(context)
                  /\ Time(context[1]) - Time(At(chat.messages, q)) <= TTL_SECONDS

\* A window of two messages or more has stopped at a candidate that is one
\* second past TTL_SECONDS older than the anchor.
C16_Witness ==
    /\ pc = "yield"
    /\ StoppedByDecay
    /\ Len(context) >= 2
    /\ Time(context[1]) - Time(Candidate) = TTL_SECONDS + 1

\* C17: every emitted window is the messages at its anchor's position and the
\* positions right below it, in descending order; it starts with one message or
\* more of the target speaker, and the rest, if any, are all of one sender
\* that is not the target speaker.
TargetSpeaker == "user" \o ToString(chat.id)

C17_WindowShape ==
    \A a \in 1..Len(built) :
        LET w == built[a]
        IN  /\ \A k \in 1..Len(w) :
                  w[k] = At(chat.messages, PositionOf(w[1]) - (k - 1))
            /\ \E j \in 1..Len(w) :
                  /\ \A k \in 1..j : w[k].from_id = TargetSpeaker
                  /\ \A k \in (j + 1)..Len(w) :
                        /\ w[k].from_id # TargetSpeaker
                        /\ w[k].from_id = w[j + 1].from_id

\* An emitted window of two target-speaker messages or more, then two
\* messages or more of another sender.
C17_Witness ==
    \E a \in 1..Len(built) :
        /\ Len(built[a]) >= 4
        /\ built[a][2].from_id = TargetSpeaker
        /\ built[a][Len(built[a]) - 1].from_id # TargetSpeaker
====
